---- MODULE Spec2Model ----
(***************************************************************************)
(* PiFinder user interface core: the Catalog-search screen (UICatalog,     *)
(* python/PiFinder/uimodules.py) and the Locate screen (UILocate,          *)
(* python/PiFinder/ui/locate.py), as a state machine driven by key events. *)
(***************************************************************************)
EXTENDS Integers, Sequences, FiniteSets, TLC

VARIABLES
    objects,        \* rows of the catalog store's objects table
    catalog_index,  \* UICatalog.catalog_index
    designator,     \* UICatalog.designator, a list of one-character strings
    cat_object,     \* UICatalog.cat_object, the tentative match
    target,         \* the shared target
    switch_to,      \* UIModule.switch_to of the screen in the foreground
    history_list,   \* ui_state["history_list"]
    observing_list, \* ui_state["observing_list"]
    active_list,    \* ui_state["active_list"]: the list it refers to
    target_index,   \* UILocate.target_index
    message,        \* the last text handed to UIModule.message
    event,          \* the key event the host delivered last
    typed,          \* the digits pushed into the designator, see SpecDesignator
    files,          \* the observing-list files obslist.write_list has written
    obs_list_write_index, \* UILocate.obs_list_write_index
    report,         \* the counts in the last "Loaded n of m" message
    pointing,       \* the pointing lines UILocate.update displayed last
    raised,         \* the last handler ended in an exception
    position,       \* the positioning state update reads, see SpecPointing
    debug_mode,     \* UIConsole.debug_mode
    dirty,          \* UIConsole.dirty
    scroll_offset,  \* UIConsole.scroll_offset
    commands        \* what has been put on the command queues, see SpecHost

vars == <<objects, catalog_index, designator, cat_object, target, switch_to,
          history_list, observing_list, active_list, target_index, message,
          event, typed, files, obs_list_write_index, report, pointing, raised,
          position, debug_mode, dirty, scroll_offset, commands>>

catalogVars == <<objects, catalog_index, designator, cat_object>>
listVars == <<history_list, observing_list, active_list, target_index, message>>
storeVars == <<files, obs_list_write_index, report>>
screenVars == <<pointing, raised, position>>
consoleVars == <<debug_mode, dirty, scroll_offset, commands>>

-----------------------------------------------------------------------------
(* Bounds of the model.                                                    *)

\* digit keys delivered are 0..MaxDigit
MaxDigit == 2
\* the catalog store holds at most MaxObjects rows
MaxObjects == 2
\* history and observing hold at most MaxList entries
MaxList == 2
\* at most MaxWrites lists are written
MaxWrites == 2
\* the console is scrolled back by at most MaxScroll lines
MaxScroll == 2
\* the command queues hold at most MaxQueue commands
MaxQueue == 2

-----------------------------------------------------------------------------
(* Values.                                                                 *)

\* Python's None, for an object reference
None == [catalog |-> "None", designation |-> 0]

\* Python's None, for target_index
NoIndex == -1

Obj(c, n) == [catalog |-> c, designation |-> n]

\* no file written yet
NoFiles ==
    [name \in {"History", "Observ"} |-> [written |-> FALSE, list |-> <<>>]]

\* nothing displayed yet in the pointing lines
Blank == <<"blank", 0, 0>>

\* the positioning state before the first fix
NoPosition ==
    [location |-> FALSE, dt |-> FALSE, solution |-> "None",
     Az |-> 0, Alt |-> 0, target_az |-> 0, target_alt |-> 0]

\* the rows the store's content is drawn from
CatalogData ==
    {Obj("N", 1), Obj("N", 10), Obj("N", 1201), Obj("M", 1), Obj("M", 102)}

\* the objects the two target lists are drawn from
ListData == {Obj("N", 1), Obj("M", 102)}

RECURSIVE SeqsUpTo(_, _)
SeqsUpTo(S, n) ==
    IF n = 0 THEN {<<>>}
    ELSE LET shorter == SeqsUpTo(S, n - 1)
         IN  shorter \cup {Append(s, x) : s \in shorter, x \in S}

-----------------------------------------------------------------------------
(* UICatalog: the designator.                                              *)

\* UICatalog.__catalogs
catalogs == << <<"N", "G", "C">>, <<" ", "I", "C">>, <<"M", "e", "s">> >>

\* str(number) of a digit key
DigitChar == <<"0", "1", "2", "3", "4", "5", "6", "7", "8", "9">>
DigitStr(number) == DigitChar[number + 1]

\* the three-slot designator given to the wrong catalog
Width_of_the_wrong_catalog(index) == IF index = 1 THEN 3 ELSE 4

\* the width key_d and scroll_obj give the designator of a catalog
Width(index) == IF index = 2 THEN 3 ELSE 4

RECURSIVE Repeat(_, _)
\* [c] * n: the empty list when n <= 0
Repeat(c, n) == IF n <= 0 THEN <<>> ELSE <<c>> \o Repeat(c, n - 1)

RECURSIVE Collapse(_, _)
\* the while loop of key_number, entered with the 1-based position index
Collapse(d, index) ==
    LET d1 == [d EXCEPT ![index] = "-"]
    IN  IF index + 1 > Len(d1) \/ d1[index + 1] \notin {"0", "-"}
        THEN d1
        ELSE Collapse(d1, index + 1)

\* key_number without its leading-placeholder loop
PushDigit_no_collapse(d, number) == Append(Tail(d), DigitStr(number))

\* the designator after key_number(number)
PushDigit(d, number) ==
    LET shifted == Append(Tail(d), DigitStr(number))
    IN  IF shifted[1] \in {"0", "-"} THEN Collapse(shifted, 1) ELSE shifted

\* "".join(self.designator).replace("-", "")
CurrentKey(d) == SelectSeq(d, LAMBDA c : c /= "-")

\* self.__catalogs[self.catalog_index].strip()[0]
RECURSIVE LStrip(_)
LStrip(s) == IF s /= <<>> /\ Head(s) = " " THEN LStrip(Tail(s)) ELSE s
CatalogCode(index) == Head(LStrip(catalogs[index + 1]))

-----------------------------------------------------------------------------
(* UICatalog: the queries on the catalog store.                            *)

RECURSIVE TextValue(_)
\* the integer a text of digits converts to under NUMERIC affinity
TextValue(text) ==
    IF text = <<>> THEN 0
    ELSE LET last == text[Len(text)]
             digit == CHOOSE n \in 0..9 : DigitChar[n + 1] = last
         IN  10 * TextValue(SubSeq(text, 1, Len(text) - 1)) + digit

\* designation <op> "<text>" in the where clause, designation an integer
\* column: a text of digits is compared as the number it spells; the empty
\* text converts to no number and stays a text, and every integer sorts
\* before every text.
SqlCompare(designation, op, text) ==
    IF text = <<>> THEN op = "<"
    ELSE LET value == TextValue(text)
         IN  CASE op = "=" -> designation = value
               [] op = "<" -> designation < value
               [] op = ">" -> designation > value

\* the rows of: SELECT * from objects where catalog = ... and designation <op> ...
SelectRows(catalog, op, text) ==
    {o \in objects : o.catalog = catalog /\ SqlCompare(o.designation, op, text)}

\* fetchone() of the query of key_number: the row found, or None
LookupObject(catalog, text) ==
    LET rows == SelectRows(catalog, "=", text)
    IN  IF rows = {} THEN None ELSE CHOOSE o \in rows : TRUE

\* fetchone() of the query of scroll_obj: the first row in
\* "order by designation" (descending for "<"), or None
NeighborObject(catalog, direction, text) ==
    LET rows == SelectRows(catalog, direction, text)
    IN  IF rows = {} THEN None
        ELSE IF direction = "<"
             THEN CHOOSE o \in rows : \A p \in rows : p.designation <= o.designation
             ELSE CHOOSE o \in rows : \A p \in rows : p.designation >= o.designation

RECURSIVE DesigStr(_)
\* list(str(tmp_obj["designation"]))
DesigStr(n) ==
    IF n < 10 THEN <<DigitStr(n)>>
    ELSE Append(DesigStr(n \div 10), DigitStr(n % 10))

\* scroll_obj padding on the right of the digits
PaddedDesig_on_the_right(index, n) ==
    LET desig == DesigStr(n)
    IN  desig \o Repeat("-", Width(index) - Len(desig))

\* scroll_obj padding every catalog to four slots
PaddedDesig_four_slots(index, n) ==
    LET desig == DesigStr(n)
    IN  Repeat("-", 4 - Len(desig)) \o desig

\* the designator scroll_obj builds for the row found
PaddedDesig(index, n) ==
    LET desig == DesigStr(n)
    IN  Repeat("-", Width(index) - Len(desig)) \o desig

-----------------------------------------------------------------------------
(* UICatalog: the key handlers.                                            *)

UICatalog_key_d ==
    LET next == IF catalog_index + 1 >= Len(catalogs) THEN 0 ELSE catalog_index + 1
    IN  /\ catalog_index' = next
        /\ designator' = Repeat("-", Width(next))
        /\ cat_object' = None
        /\ event' = "catalog.key_d"
        /\ UNCHANGED typed
        /\ UNCHANGED consoleVars
        /\ UNCHANGED <<objects, target, switch_to>>
        /\ UNCHANGED listVars
        /\ UNCHANGED storeVars
        /\ raised' = FALSE
        /\ UNCHANGED <<pointing, position>>

\* key_number keeping the earlier match when the query finds no row
UICatalog_key_number_keeping_match(number) ==
    LET pushed == PushDigit(designator, number)
        found == LookupObject(CatalogCode(catalog_index), CurrentKey(pushed))
    IN  /\ designator' = pushed
        /\ cat_object' = IF found /= None THEN found ELSE cat_object
        /\ event' = "catalog.key_number"
        /\ UNCHANGED typed
        /\ UNCHANGED consoleVars
        /\ UNCHANGED <<objects, catalog_index, target, switch_to>>
        /\ UNCHANGED listVars
        /\ UNCHANGED storeVars
        /\ raised' = FALSE
        /\ UNCHANGED <<pointing, position>>

UICatalog_key_number(number) ==
    LET pushed == PushDigit(designator, number)
    IN  /\ designator' = pushed
        /\ cat_object' = LookupObject(CatalogCode(catalog_index), CurrentKey(pushed))
        /\ event' = "catalog.key_number"
        /\ UNCHANGED typed
        /\ UNCHANGED consoleVars
        /\ UNCHANGED <<objects, catalog_index, target, switch_to>>
        /\ UNCHANGED listVars
        /\ UNCHANGED storeVars
        /\ raised' = FALSE
        /\ UNCHANGED <<pointing, position>>

\* key_enter without its test of cat_object
UICatalog_key_enter_unguarded ==
    /\ target' = cat_object
    /\ switch_to' = "UILocate"
    /\ event' = "catalog.key_enter"
    /\ UNCHANGED typed
    /\ UNCHANGED consoleVars
    /\ UNCHANGED catalogVars
    /\ UNCHANGED listVars
    /\ UNCHANGED storeVars
    /\ raised' = FALSE
    /\ UNCHANGED <<pointing, position>>

UICatalog_key_enter ==
    /\ IF cat_object /= None
       THEN /\ target' = cat_object
            /\ switch_to' = "UILocate"
       ELSE UNCHANGED <<target, switch_to>>
    /\ event' = "catalog.key_enter"
    /\ UNCHANGED typed
    /\ UNCHANGED consoleVars
    /\ UNCHANGED catalogVars
    /\ UNCHANGED listVars
    /\ UNCHANGED storeVars
    /\ raised' = FALSE
    /\ UNCHANGED <<pointing, position>>

UICatalog_scroll_obj(direction) ==
    LET tmp_obj == NeighborObject(CatalogCode(catalog_index), direction,
                                  CurrentKey(designator))
    IN  /\ IF tmp_obj /= None
           THEN /\ cat_object' = tmp_obj
                /\ designator' = PaddedDesig(catalog_index, tmp_obj.designation)
           ELSE UNCHANGED <<cat_object, designator>>
        /\ UNCHANGED <<objects, catalog_index, target, switch_to>>
        /\ UNCHANGED listVars
        /\ UNCHANGED storeVars
        /\ raised' = FALSE
        /\ UNCHANGED <<pointing, position>>

UICatalog_key_up ==
    /\ UICatalog_scroll_obj("<")
    /\ event' = "catalog.key_up"
    /\ UNCHANGED typed
    /\ UNCHANGED consoleVars

UICatalog_key_down ==
    /\ UICatalog_scroll_obj(">")
    /\ event' = "catalog.key_down"
    /\ UNCHANGED typed
    /\ UNCHANGED consoleVars

\* UICatalog.update ends in UIModule.screen_update, which hands switch_to
\* to the host and clears it
UICatalog_update ==
    /\ switch_to' = "None"
    /\ event' = "catalog.update"
    /\ UNCHANGED typed
    /\ UNCHANGED consoleVars
    /\ UNCHANGED <<target>>
    /\ UNCHANGED catalogVars
    /\ UNCHANGED listVars
    /\ UNCHANGED storeVars
    /\ raised' = FALSE
    /\ UNCHANGED <<pointing, position>>

-----------------------------------------------------------------------------
(* The Catalog-search screen alone.                                        *)

Digits == 0..MaxDigit

Stores == {S \in SUBSET CatalogData : Cardinality(S) <= MaxObjects}

InitCatalog ==
    /\ objects \in Stores
    /\ catalog_index = 0
    /\ designator = Repeat("-", 4)
    /\ cat_object = None
    /\ target = None
    /\ switch_to = "None"
    /\ history_list = <<>>
    /\ observing_list = <<>>
    /\ active_list = "history_list"
    /\ target_index = NoIndex
    /\ message = ""
    /\ event = "init"
    /\ typed = <<>>
    /\ files = NoFiles
    /\ obs_list_write_index = 0
    /\ report = <<0, 0>>
    /\ pointing = Blank
    /\ raised = FALSE
    /\ position = NoPosition
    /\ debug_mode = FALSE
    /\ dirty = TRUE
    /\ scroll_offset = 0
    /\ commands = <<>>

NextCatalog ==
    \/ \E number \in Digits : UICatalog_key_number(number)
    \/ UICatalog_key_d
    \/ UICatalog_key_up
    \/ UICatalog_key_down
    \/ UICatalog_key_enter
    \/ UICatalog_update

SpecCatalog == InitCatalog /\ [][NextCatalog]_vars

-----------------------------------------------------------------------------
(* The designator alone: digits pushed into an all-placeholder designator  *)
(* of either width, with the digits pushed kept in typed.                  *)

\* the last w elements of s
LastDigits(s, w) == IF Len(s) > w THEN SubSeq(s, Len(s) - w + 1, Len(s)) ELSE s

InitDesignator ==
    /\ objects = {}
    /\ catalog_index \in 0..(Len(catalogs) - 1)
    /\ designator = Repeat("-", Width(catalog_index))
    /\ cat_object = None
    /\ target = None
    /\ switch_to = "None"
    /\ history_list = <<>>
    /\ observing_list = <<>>
    /\ active_list = "history_list"
    /\ target_index = NoIndex
    /\ message = ""
    /\ event = "init"
    /\ typed = <<>>
    /\ files = NoFiles
    /\ obs_list_write_index = 0
    /\ report = <<0, 0>>
    /\ pointing = Blank
    /\ raised = FALSE
    /\ position = NoPosition
    /\ debug_mode = FALSE
    /\ dirty = TRUE
    /\ scroll_offset = 0
    /\ commands = <<>>

\* key_number, with the digit pushed logged in typed
Designator_push(number) ==
    /\ designator' = PushDigit(designator, number)
    /\ typed' = LastDigits(Append(typed, number), Len(designator))
    /\ UNCHANGED consoleVars
    /\ cat_object' = LookupObject(CatalogCode(catalog_index),
                                  CurrentKey(PushDigit(designator, number)))
    /\ event' = "catalog.key_number"
    /\ UNCHANGED <<objects, catalog_index, target, switch_to>>
    /\ UNCHANGED listVars
    /\ UNCHANGED storeVars
    /\ raised' = FALSE
    /\ UNCHANGED <<pointing, position>>

NextDesignator == \E number \in Digits : Designator_push(number)

SpecDesignator == InitDesignator /\ [][NextDesignator]_vars

-----------------------------------------------------------------------------
(* UICatalog with a store that can fail: conn.execute raises, and nothing  *)
(* in the handler catches it.                                              *)

\* key_number when the query raises: the digit has been pushed into the
\* designator, cat_object keeps what it held
UICatalog_key_number_raising(number) ==
    /\ designator' = PushDigit(designator, number)
    /\ raised' = TRUE
    /\ event' = "catalog.key_number"
    /\ UNCHANGED typed
    /\ UNCHANGED consoleVars
    /\ UNCHANGED <<objects, catalog_index, cat_object, target, switch_to>>
    /\ UNCHANGED listVars
    /\ UNCHANGED storeVars
    /\ UNCHANGED <<pointing, position>>

\* scroll_obj when the query raises: nothing has been assigned yet
UICatalog_scroll_obj_raising(direction) ==
    /\ raised' = TRUE
    /\ UNCHANGED catalogVars
    /\ UNCHANGED <<target, switch_to>>
    /\ UNCHANGED listVars
    /\ UNCHANGED storeVars
    /\ UNCHANGED <<pointing, position>>

UICatalog_key_up_raising ==
    /\ UICatalog_scroll_obj_raising("<")
    /\ event' = "catalog.key_up"
    /\ UNCHANGED typed
    /\ UNCHANGED consoleVars

UICatalog_key_down_raising ==
    /\ UICatalog_scroll_obj_raising(">")
    /\ event' = "catalog.key_down"
    /\ UNCHANGED typed
    /\ UNCHANGED consoleVars

\* the rows of the store in SpecStore
StoreContents ==
    {{Obj("N", 1), Obj("N", 10)}, {Obj("N", 10), Obj("M", 1)}}

InitStore ==
    /\ InitCatalog
    /\ objects \in StoreContents

NextStore ==
    \/ \E number \in Digits : UICatalog_key_number(number)
    \/ \E number \in Digits : UICatalog_key_number_raising(number)
    \/ UICatalog_key_d
    \/ UICatalog_key_up
    \/ UICatalog_key_up_raising
    \/ UICatalog_key_down
    \/ UICatalog_key_down_raising

SpecStore == InitStore /\ [][NextStore]_vars

-----------------------------------------------------------------------------
(* UILocate: the target lists.                                             *)

\* the list ui_state["active_list"] refers to
ActiveList == IF active_list = "history_list" THEN history_list ELSE observing_list

\* degrees in a full and in a half turn
FullTurn == 360
HalfTurn == 180

\* what one read of the positioning state can yield: location and datetime
\* present or not; the solution absent, present with Alt None, or solved
\* with the horizontal position (Az, Alt); and the horizontal position
\* (target_az, target_alt) radec_to_altaz resolves the target to
Fixes ==
    [location : BOOLEAN, dt : BOOLEAN, solution : {"None", "NoAlt", "Solved"},
     Az : {359}, Alt : {10}, target_az : {2}, target_alt : {15}]

\* the difference as it is, not brought into one turn
NormalizeSigned180_unwrapped(x) == x

\* (x + 180) % 360 - 180
NormalizeSigned180(x) == ((x + HalfTurn) % FullTurn) - HalfTurn

\* the truth value of solution["Alt"]: None and 0 are false
AltTruthy(fix) == fix.solution = "Solved" /\ fix.Alt /= 0

\* what aim_degrees returns: the pair of degrees; the pair (None, None) of
\* its else branch; or the bare None it returns by falling off the inner if
aim_degrees(fix) ==
    IF fix.location /\ fix.dt /\ fix.solution /= "None"
    THEN IF AltTruthy(fix)
         THEN <<"degrees", NormalizeSigned180(fix.target_az - fix.Az),
                NormalizeSigned180(fix.target_alt - fix.Alt)>>
         ELSE <<"None", 0, 0>>
    ELSE <<"None, None", 0, 0>>

\* aim_degrees falls off its inner if and returns a bare None, which the
\* unpacking in update cannot take: update raises
AimRaises(fix) == aim_degrees(fix)[1] = "None"

\* switch_to after UILocate.update with the target tgt: screen_update
\* returns switch_to to the caller of update, the host or the handler that
\* redraws, and clears it, unless update raised before it
UpdateSwitchTo(tgt, fix) ==
    IF tgt /= None /\ AimRaises(fix) THEN switch_to ELSE "None"

\* the pointing lines: "No Target Set", the placeholder " ---.-" /
\* "  --.-", or the signed degrees
NoTarget == <<"No Target Set", 0, 0>>
NoFix == <<"---.-", 0, 0>>
Aim(az, alt) == <<"degrees", az, alt>>

\* the pointing lines after UILocate.update with the target tgt: `not
\* point_az` holds of None and of 0; a raise leaves the display as it was
UpdatePointing(tgt, fix) ==
    IF tgt = None THEN NoTarget
    ELSE IF AimRaises(fix) THEN pointing
    ELSE LET aim == aim_degrees(fix)
         IN  IF aim[1] = "None, None" \/ aim[2] = 0
             THEN NoFix
             ELSE Aim(aim[2], aim[3])

\* UILocate.update with the target tgt raises
UpdateRaised(tgt, fix) == tgt /= None /\ AimRaises(fix)

\* list.index(x): the 0-based position of the first element equal to x,
\* NoIndex standing for the ValueError
ListIndex(list, x) ==
    IF \E i \in 1..Len(list) : list[i] = x
    THEN (CHOOSE i \in 1..Len(list) :
              list[i] = x /\ \A j \in 1..(i - 1) : list[j] /= x) - 1
    ELSE NoIndex

\* the options of the Save menu, and the file each one writes: the name is
\* {uuid}_{option}_{ss_count}, which differs by the option alone
SaveOptions == {"CANCEL", "History", "Observ"}
FileNames == {"History", "Observ"}

\* a file obslist.write_list has written with the list
Written(list) == [written |-> TRUE, list |-> list]

SaveEvent(option) ==
    CASE option = "CANCEL" -> "locate.save_list(CANCEL)"
      [] option = "History" -> "locate.save_list(History)"
      [] option = "Observ" -> "locate.save_list(Observ)"

\* a save that writes the active list, whatever the option
UILocate_save_list_writing_active(option) ==
    /\ IF option = "CANCEL"
       THEN UNCHANGED <<files, obs_list_write_index, message>>
       ELSE IF Len(ActiveList) = 0
            THEN /\ message' = "No objects"
                 /\ UNCHANGED <<files, obs_list_write_index>>
            ELSE /\ obs_list_write_index < MaxWrites
                 /\ files' = [files EXCEPT ![option] = Written(ActiveList)]
                 /\ obs_list_write_index' = obs_list_write_index + 1
                 /\ message' = "Saved list"
    /\ raised' = FALSE
    /\ event' = SaveEvent(option)
    /\ UNCHANGED typed
    /\ UNCHANGED consoleVars
    /\ UNCHANGED <<target, switch_to, history_list, observing_list,
                   active_list, target_index, report, pointing, position>>
    /\ UNCHANGED catalogVars

UILocate_save_list(option) ==
    /\ IF option = "CANCEL"
       THEN UNCHANGED <<files, obs_list_write_index, message>>
       ELSE IF Len(ActiveList) = 0
            THEN /\ message' = "No objects"
                 /\ UNCHANGED <<files, obs_list_write_index>>
            ELSE /\ obs_list_write_index < MaxWrites
                 /\ files' = [files EXCEPT ![option] =
                                 Written(IF option = "History"
                                         THEN history_list
                                         ELSE observing_list)]
                 /\ obs_list_write_index' = obs_list_write_index + 1
                 /\ message' = "Saved list"
    /\ raised' = FALSE
    /\ event' = SaveEvent(option)
    /\ UNCHANGED typed
    /\ UNCHANGED consoleVars
    /\ UNCHANGED <<target, switch_to, history_list, observing_list,
                   active_list, target_index, report, pointing, position>>
    /\ UNCHANGED catalogVars

\* the lists the files of the store hold
StoredLists == {<<>>, <<Obj("M", 102)>>, <<Obj("M", 102), Obj("N", 1)>>}

\* what obslist.read_list can return: an error, or the catalog objects it
\* matched out of the objects_parsed entries of the file
ReadResults ==
    {[result |-> "error", catalog |-> <<>>, objects_parsed |-> 0]}
    \cup UNION {{[result |-> "ok", catalog |-> c, objects_parsed |-> n] :
                     n \in Len(c)..(Len(c) + 1)} :
                 c \in StoredLists}

LoadEvent(option) ==
    CASE option = "CANCEL" -> "locate.load_list(CANCEL)"
      [] option = "History" -> "locate.load_list(History)"
      [] option = "Observ" -> "locate.load_list(Observ)"

\* a load that leaves the cursor where it was
UILocate_load_list_keeping_cursor(option, _load_results) ==
    /\ IF option = "CANCEL"
          \/ _load_results.result = "error"
          \/ Len(_load_results.catalog) = 0
       THEN UNCHANGED <<observing_list, active_list, target, message, report>>
       ELSE /\ observing_list' = _load_results.catalog
            /\ active_list' = "observing_list"
            /\ target' = _load_results.catalog[1]
            /\ message' = "Loaded"
            /\ report' = <<Len(_load_results.catalog),
                           _load_results.objects_parsed>>
    /\ raised' = FALSE
    /\ event' = LoadEvent(option)
    /\ UNCHANGED typed
    /\ UNCHANGED consoleVars
    /\ UNCHANGED <<switch_to, history_list, files, obs_list_write_index,
                   pointing, position, target_index>>
    /\ UNCHANGED catalogVars

\* a load that reports the entries parsed as the count loaded
UILocate_load_list_reporting_parsed(option, _load_results) ==
    /\ IF option = "CANCEL"
          \/ _load_results.result = "error"
          \/ Len(_load_results.catalog) = 0
       THEN UNCHANGED <<observing_list, active_list, target_index, target,
                        message, report>>
       ELSE /\ observing_list' = _load_results.catalog
            /\ active_list' = "observing_list"
            /\ target_index' = 0
            /\ target' = _load_results.catalog[1]
            /\ message' = "Loaded"
            /\ report' = <<_load_results.objects_parsed,
                           _load_results.objects_parsed>>
    /\ raised' = FALSE
    /\ event' = LoadEvent(option)
    /\ UNCHANGED typed
    /\ UNCHANGED consoleVars
    /\ UNCHANGED <<switch_to, history_list, files, obs_list_write_index,
                   pointing, position>>
    /\ UNCHANGED catalogVars

\* a load that clears the cursor when nothing is read
UILocate_load_list_dropping_cursor(option, _load_results) ==
    /\ IF option = "CANCEL"
       THEN UNCHANGED <<observing_list, active_list, target_index, target,
                        message, report>>
       ELSE IF _load_results.result = "error" \/ Len(_load_results.catalog) = 0
            THEN /\ message' = IF _load_results.result = "error"
                               THEN "Err!"
                               ELSE "No matches"
                 /\ target_index' = NoIndex
                 /\ UNCHANGED <<observing_list, active_list, target, report>>
            ELSE /\ observing_list' = _load_results.catalog
                 /\ active_list' = "observing_list"
                 /\ target_index' = 0
                 /\ target' = _load_results.catalog[1]
                 /\ message' = "Loaded"
                 /\ report' = <<Len(_load_results.catalog),
                                _load_results.objects_parsed>>
    /\ raised' = FALSE
    /\ event' = LoadEvent(option)
    /\ UNCHANGED typed
    /\ UNCHANGED consoleVars
    /\ UNCHANGED <<switch_to, history_list, files, obs_list_write_index,
                   pointing, position>>
    /\ UNCHANGED catalogVars

UILocate_load_list(option, _load_results) ==
    /\ IF option = "CANCEL"
       THEN UNCHANGED <<observing_list, active_list, target_index, target,
                        message, report>>
       ELSE IF _load_results.result = "error"
            THEN /\ message' = "Err!"
                 /\ UNCHANGED <<observing_list, active_list, target_index,
                                target, report>>
            ELSE IF Len(_load_results.catalog) = 0
                 THEN /\ message' = "No matches"
                      /\ UNCHANGED <<observing_list, active_list,
                                     target_index, target, report>>
                 ELSE /\ observing_list' = _load_results.catalog
                      /\ active_list' = "observing_list"
                      /\ target_index' = 0
                      /\ target' = _load_results.catalog[1]
                      /\ message' = "Loaded"
                      /\ report' = <<Len(_load_results.catalog),
                                     _load_results.objects_parsed>>
    /\ raised' = FALSE
    /\ event' = LoadEvent(option)
    /\ UNCHANGED typed
    /\ UNCHANGED consoleVars
    /\ UNCHANGED <<switch_to, history_list, files, obs_list_write_index,
                   pointing, position>>
    /\ UNCHANGED catalogVars

UILocate_key_b ==
    \* active_list == history_list compares the two lists by content
    /\ IF ActiveList = history_list
       THEN IF Len(observing_list) > 0
            THEN /\ active_list' = "observing_list"
                 /\ target_index' = 0
                 /\ target' = observing_list[1]
                 /\ UNCHANGED message
            ELSE /\ target_index' = NoIndex
                 /\ message' = "No Obs List"
                 /\ UNCHANGED <<active_list, target>>
       ELSE IF Len(history_list) > 0
            THEN /\ active_list' = "history_list"
                 /\ target_index' = Len(history_list) - 1
                 /\ target' = history_list[Len(history_list)]
                 /\ UNCHANGED message
            ELSE /\ target_index' = NoIndex
                 /\ message' = "No History"
                 /\ UNCHANGED <<active_list, target>>
    /\ raised' = FALSE
    /\ event' = "locate.key_b"
    /\ UNCHANGED typed
    /\ UNCHANGED consoleVars
    /\ UNCHANGED <<history_list, observing_list, switch_to>>
    /\ UNCHANGED <<pointing, position>>
    /\ UNCHANGED storeVars
    /\ UNCHANGED catalogVars

UILocate_key_enter ==
    /\ switch_to' = "UICatalog"
    /\ raised' = FALSE
    /\ event' = "locate.key_enter"
    /\ UNCHANGED typed
    /\ UNCHANGED consoleVars
    /\ UNCHANGED <<target>>
    /\ UNCHANGED listVars
    /\ UNCHANGED <<pointing, position>>
    /\ UNCHANGED storeVars
    /\ UNCHANGED catalogVars

\* a scroll that wraps around at either end of the list
ScrollIndex_wrapping(index, direction, length) == (index + direction) % length

\* the index scroll_target_history moves to
ScrollIndex(index, direction, length) ==
    LET moved == index + direction
        capped == IF moved >= length THEN length - 1 ELSE moved
    IN  IF capped < 0 THEN 0 ELSE capped

UILocate_scroll_target_history(direction, fix) ==
    /\ IF target_index /= NoIndex
       THEN LET index == ScrollIndex(target_index, direction, Len(ActiveList))
            IN  /\ target_index' = index
                /\ target' = ActiveList[index + 1]
                /\ switch_to' = UpdateSwitchTo(ActiveList[index + 1], fix)
                /\ pointing' = UpdatePointing(ActiveList[index + 1], fix)
                /\ raised' = UpdateRaised(ActiveList[index + 1], fix)
       ELSE /\ raised' = FALSE
            /\ UNCHANGED <<target_index, target, switch_to, pointing>>
    /\ UNCHANGED <<history_list, observing_list, active_list, message>>
    /\ UNCHANGED position
    /\ UNCHANGED storeVars
    /\ UNCHANGED catalogVars

UILocate_key_up(fix) ==
    /\ UILocate_scroll_target_history(-1, fix)
    /\ event' = "locate.key_up"
    /\ UNCHANGED typed
    /\ UNCHANGED consoleVars

UILocate_key_down(fix) ==
    /\ UILocate_scroll_target_history(1, fix)
    /\ event' = "locate.key_down"
    /\ UNCHANGED typed
    /\ UNCHANGED consoleVars

UILocate_active(fix) ==
    /\ target_index' = ListIndex(ActiveList, target)
    /\ switch_to' = UpdateSwitchTo(target, fix)
    /\ pointing' = UpdatePointing(target, fix)
    /\ raised' = UpdateRaised(target, fix)
    /\ event' = "locate.active"
    /\ UNCHANGED typed
    /\ UNCHANGED consoleVars
    /\ UNCHANGED <<target, history_list, observing_list, active_list, message>>
    /\ UNCHANGED position
    /\ UNCHANGED storeVars
    /\ UNCHANGED catalogVars

UILocate_update(fix) ==
    /\ switch_to' = UpdateSwitchTo(target, fix)
    /\ pointing' = UpdatePointing(target, fix)
    /\ raised' = UpdateRaised(target, fix)
    /\ event' = "locate.update"
    /\ UNCHANGED typed
    /\ UNCHANGED consoleVars
    /\ UNCHANGED <<target>>
    /\ UNCHANGED listVars
    /\ UNCHANGED position
    /\ UNCHANGED storeVars
    /\ UNCHANGED catalogVars

-----------------------------------------------------------------------------
(* The Locate screen alone: the lists and the target are what the rest of  *)
(* the program left in ui_state. The positioning process publishes between *)
(* any two events, so each handler reads a snapshot of its own.            *)

Lists == SeqsUpTo(ListData, MaxList)

InitLocate ==
    /\ objects = {}
    /\ catalog_index = 0
    /\ designator = Repeat("-", 4)
    /\ cat_object = None
    /\ target \in ListData \cup {None}
    /\ switch_to = "None"
    /\ history_list \in Lists
    /\ observing_list \in Lists
    /\ active_list \in {"history_list", "observing_list"}
    /\ target_index = NoIndex
    /\ message = ""
    /\ event = "init"
    /\ typed = <<>>
    /\ files = NoFiles
    /\ obs_list_write_index = 0
    /\ report = <<0, 0>>
    /\ pointing = Blank
    /\ raised = FALSE
    /\ position = NoPosition
    /\ debug_mode = FALSE
    /\ dirty = TRUE
    /\ scroll_offset = 0
    /\ commands = <<>>

NextLocate ==
    \/ UILocate_key_b
    \/ UILocate_key_enter
    \/ \E fix \in Fixes : UILocate_key_up(fix)
    \/ \E fix \in Fixes : UILocate_key_down(fix)
    \/ \E fix \in Fixes : UILocate_active(fix)
    \/ \E fix \in Fixes : UILocate_update(fix)

SpecLocate == InitLocate /\ [][NextLocate]_vars

-----------------------------------------------------------------------------
(* The Locate screen with its Save and Load menus: the lists, the files    *)
(* written and what is read back. No position has been solved.             *)

NoFixes == {fix \in Fixes : fix.solution = "None" /\ ~fix.location /\ ~fix.dt}

HistoryLists == {<<>>, <<Obj("M", 102)>>, <<Obj("N", 1), Obj("M", 102)>>}

InitLists ==
    /\ objects = {}
    /\ catalog_index = 0
    /\ designator = Repeat("-", 4)
    /\ cat_object = None
    /\ target \in ListData \cup {None}
    /\ switch_to = "None"
    /\ history_list \in HistoryLists
    /\ observing_list \in StoredLists
    /\ active_list \in {"history_list", "observing_list"}
    /\ target_index = NoIndex
    /\ message = ""
    /\ event = "init"
    /\ typed = <<>>
    /\ files = NoFiles
    /\ obs_list_write_index = 0
    /\ report = <<0, 0>>
    /\ pointing = Blank
    /\ raised = FALSE
    /\ position = NoPosition
    /\ debug_mode = FALSE
    /\ dirty = TRUE
    /\ scroll_offset = 0
    /\ commands = <<>>

NextLists ==
    \/ UILocate_key_b
    \/ \E fix \in NoFixes : UILocate_key_up(fix)
    \/ \E fix \in NoFixes : UILocate_key_down(fix)
    \/ \E fix \in NoFixes : UILocate_active(fix)
    \/ \E option \in SaveOptions : UILocate_save_list(option)
    \/ \E option \in FileNames \cup {"CANCEL"}, _load_results \in ReadResults :
           UILocate_load_list(option, _load_results)

SpecLists == InitLists /\ [][NextLists]_vars

-----------------------------------------------------------------------------
(* The pointing computation alone: update run on one target under each     *)
(* positioning state.                                                      *)

PointingFixes ==
    [location : BOOLEAN, dt : BOOLEAN, solution : {"None", "NoAlt", "Solved"},
     Az : {0, 359}, Alt : {0, 10}, target_az : 0..(FullTurn - 1),
     target_alt : {-80, 15}]

InitPointing ==
    /\ objects = {}
    /\ catalog_index = 0
    /\ designator = Repeat("-", 4)
    /\ cat_object = None
    /\ target \in {None, Obj("M", 102)}
    /\ switch_to = "None"
    /\ history_list = <<Obj("M", 102)>>
    /\ observing_list = <<>>
    /\ active_list = "history_list"
    /\ target_index = NoIndex
    /\ message = ""
    /\ event = "init"
    /\ typed = <<>>
    /\ files = NoFiles
    /\ obs_list_write_index = 0
    /\ report = <<0, 0>>
    /\ pointing = Blank
    /\ raised = FALSE
    /\ position \in PointingFixes
    /\ debug_mode = FALSE
    /\ dirty = TRUE
    /\ scroll_offset = 0
    /\ commands = <<>>

NextPointing == UILocate_update(position)

SpecPointing == InitPointing /\ [][NextPointing]_vars

-----------------------------------------------------------------------------
(* UIConsole, UIStatus and UIPreview.                                      *)

\* queue.put(command) on command_queues[queue]
Put(queue, command) == Append(commands, <<queue, command>>)

UIConsole_key_number(number) ==
    /\ IF number = 0
       THEN /\ Len(commands) + 2 <= MaxQueue
            /\ debug_mode' = ~debug_mode
            /\ commands' = Append(Put("camera", "debug"),
                                  <<"console", IF debug_mode
                                               THEN "Debug: False"
                                               ELSE "Debug: True">>)
       ELSE UNCHANGED <<debug_mode, commands>>
    \* shared_state.set_datetime(datetime.datetime(2022, 11, 15, 2, 0, 0)):
    \* the shared state holds a datetime from now on
    /\ position' = [position EXCEPT !.dt = TRUE]
    /\ raised' = FALSE
    /\ event' = "console.key_number"
    /\ UNCHANGED typed
    /\ UNCHANGED <<dirty, scroll_offset>>
    /\ UNCHANGED <<target, switch_to, pointing>>
    /\ UNCHANGED catalogVars
    /\ UNCHANGED listVars
    /\ UNCHANGED storeVars

UIConsole_key_enter ==
    /\ scroll_offset' = 0
    /\ dirty' = TRUE
    /\ raised' = FALSE
    /\ event' = "console.key_enter"
    /\ UNCHANGED typed
    /\ UNCHANGED <<debug_mode, commands>>
    /\ UNCHANGED <<target, switch_to, pointing, position>>
    /\ UNCHANGED catalogVars
    /\ UNCHANGED listVars
    /\ UNCHANGED storeVars

UIConsole_key_up ==
    /\ scroll_offset < MaxScroll
    /\ scroll_offset' = scroll_offset + 1
    /\ dirty' = TRUE
    /\ raised' = FALSE
    /\ event' = "console.key_up"
    /\ UNCHANGED typed
    /\ UNCHANGED <<debug_mode, commands>>
    /\ UNCHANGED <<target, switch_to, pointing, position>>
    /\ UNCHANGED catalogVars
    /\ UNCHANGED listVars
    /\ UNCHANGED storeVars

UIConsole_key_down ==
    /\ scroll_offset' = IF scroll_offset - 1 < 0 THEN 0 ELSE scroll_offset - 1
    /\ dirty' = TRUE
    /\ raised' = FALSE
    /\ event' = "console.key_down"
    /\ UNCHANGED typed
    /\ UNCHANGED <<debug_mode, commands>>
    /\ UNCHANGED <<target, switch_to, pointing, position>>
    /\ UNCHANGED catalogVars
    /\ UNCHANGED listVars
    /\ UNCHANGED storeVars

\* UIConsole.update draws and calls screen_update only when dirty;
\* UIConsole.active sets dirty first
UIConsole_update ==
    /\ IF dirty
       THEN /\ dirty' = FALSE
            /\ switch_to' = "None"
       ELSE UNCHANGED <<dirty, switch_to>>
    /\ raised' = FALSE
    /\ event' = "console.update"
    /\ UNCHANGED typed
    /\ UNCHANGED <<debug_mode, scroll_offset, commands>>
    /\ UNCHANGED <<target, pointing, position>>
    /\ UNCHANGED catalogVars
    /\ UNCHANGED listVars
    /\ UNCHANGED storeVars

UIConsole_active ==
    /\ dirty' = FALSE
    /\ switch_to' = "None"
    /\ raised' = FALSE
    /\ event' = "console.active"
    /\ UNCHANGED typed
    /\ UNCHANGED <<debug_mode, scroll_offset, commands>>
    /\ UNCHANGED <<target, pointing, position>>
    /\ UNCHANGED catalogVars
    /\ UNCHANGED listVars
    /\ UNCHANGED storeVars

\* UIStatus.update reads the solution, the location and the datetime into
\* its status lines and ends in screen_update
UIStatus_update ==
    /\ switch_to' = "None"
    /\ raised' = FALSE
    /\ event' = "status.update"
    /\ UNCHANGED typed
    /\ UNCHANGED consoleVars
    /\ UNCHANGED <<target, pointing, position>>
    /\ UNCHANGED catalogVars
    /\ UNCHANGED listVars
    /\ UNCHANGED storeVars

\* UIPreview.key_up, key_down and key_enter
UIPreview_key(name, command) ==
    /\ Len(commands) + 1 <= MaxQueue
    /\ commands' = Put("camera", command)
    /\ raised' = FALSE
    /\ event' = name
    /\ UNCHANGED typed
    /\ UNCHANGED <<debug_mode, dirty, scroll_offset>>
    /\ UNCHANGED <<target, switch_to, pointing, position>>
    /\ UNCHANGED catalogVars
    /\ UNCHANGED listVars
    /\ UNCHANGED storeVars

UIPreview_key_up == UIPreview_key("preview.key_up", "exp_up")

UIPreview_key_down == UIPreview_key("preview.key_down", "exp_dn")

UIPreview_key_enter == UIPreview_key("preview.key_enter", "exp_save")

\* UIPreview.update, with a camera image newer than the last one or not
UIPreview_update(new_image) ==
    /\ switch_to' = IF new_image THEN "None" ELSE switch_to
    /\ raised' = FALSE
    /\ event' = "preview.update"
    /\ UNCHANGED typed
    /\ UNCHANGED consoleVars
    /\ UNCHANGED <<target, pointing, position>>
    /\ UNCHANGED catalogVars
    /\ UNCHANGED listVars
    /\ UNCHANGED storeVars

\* the positioning process publishes a location, a datetime and a solution
Positioning_publish(fix) ==
    /\ position' = fix
    /\ event' = "positioning.publish"
    /\ UNCHANGED typed
    /\ UNCHANGED consoleVars
    /\ UNCHANGED <<target, switch_to, pointing, raised>>
    /\ UNCHANGED catalogVars
    /\ UNCHANGED listVars
    /\ UNCHANGED storeVars

-----------------------------------------------------------------------------
(* The Console, Status and Preview screens under the host, next to the     *)
(* positioning process.                                                    *)

InitHost ==
    /\ InitCatalog
    /\ objects = {}

NextHost ==
    \/ \E fix \in Fixes : Positioning_publish(fix)
    \/ \E number \in Digits : UIConsole_key_number(number)
    \/ UIConsole_key_enter
    \/ UIConsole_key_up
    \/ UIConsole_key_down
    \/ UIConsole_active
    \/ UIConsole_update
    \/ UIStatus_update
    \/ UIPreview_key_up
    \/ UIPreview_key_down
    \/ UIPreview_key_enter
    \/ \E new_image \in BOOLEAN : UIPreview_update(new_image)

SpecHost == InitHost /\ [][NextHost]_vars

-----------------------------------------------------------------------------
(* Both screens under one host.                                            *)

Init == InitCatalog

Next == NextCatalog \/ NextLocate

Spec == Init /\ [][Next]_vars

-----------------------------------------------------------------------------
(* Properties of the Catalog-search screen.                                *)

\* the code of the active catalog
ActiveCode(index) == <<"N", "I", "M">>[index + 1]

\* the width of the designator of a catalog
ActiveWidth(index) == IF ActiveCode(index) = "M" THEN 3 ELSE 4

RECURSIVE StripZeros(_)
\* a list of digits without its leading zeros
StripZeros(digits) ==
    IF digits /= <<>> /\ Head(digits) = 0 THEN StripZeros(Tail(digits)) ELSE digits

\* the decimal text of a list of digits
DigitsText(digits) == [i \in 1..Len(digits) |-> DigitChar[digits[i] + 1]]

\* d is text right-aligned in width slots, placeholders to its left
RightAligned(d, text, width) ==
    /\ Len(d) = width
    /\ Len(text) <= width
    /\ \A i \in 1..width :
          d[i] = IF i <= width - Len(text) THEN "-" ELSE text[i - (width - Len(text))]

\* C1: after any sequence of digit pushes into a designator that starts
\* all-placeholder, the key is the last w digits pushed read as a decimal
\* number without leading zeros (empty when none was pushed or all are 0),
\* and every slot left of the key shows the placeholder.
C1_KeyIsLastDigitsPushed ==
    LET key == DigitsText(StripZeros(typed))
    IN  /\ CurrentKey(designator) = key
        /\ RightAligned(designator, key, ActiveWidth(catalog_index))

\* 0, 0 and a nonzero digit were pushed into a four-slot designator
C1_Witness ==
    /\ typed = <<0, 0, 2>>
    /\ designator = <<"-", "-", "-", "2">>

\* C2: in every state of the Catalog-search screen no placeholder stands
\* to the right of a digit in the designator.
C2_PlaceholdersArePrefix ==
    \A i, j \in 1..Len(designator) :
        (i < j /\ designator[i] /= "-") => designator[j] /= "-"

\* an up scroll from a key between 10 and 1201 adopted NGC 10
C2_Witness ==
    /\ event = "catalog.key_up"
    /\ Obj("N", 1201) \in objects
    /\ designator = <<"-", "-", "1", "0">>

\* C3: after every digit push the tentative match is the object of the
\* active catalog whose designation is the key, and none when the key is
\* empty or the catalog has no such object.
C3_MatchIsLookupOfKey ==
    event = "catalog.key_number" =>
        LET key == CurrentKey(designator)
            hits == {o \in objects : /\ o.catalog = ActiveCode(catalog_index)
                                     /\ DesigStr(o.designation) = key}
        IN  IF hits = {} THEN cat_object = None ELSE cat_object \in hits

\* the key 12 matches nothing although the key 1 before it matched NGC 1
C3_Witness ==
    /\ event = "catalog.key_number"
    /\ catalog_index = 0
    /\ CurrentKey(designator) = <<"1", "2">>
    /\ Obj("N", 1) \in objects
    /\ cat_object = None

\* the objects of the active catalog
ActiveObjects == {o \in objects : o.catalog = ActiveCode(catalog_index)}

\* C4: the down key finds the object of the active catalog with the
\* smallest designation strictly greater than the key, the up key the one
\* with the largest strictly less than the key, by numeric order, for every
\* key (the empty key, no digit, reads as the number 0).
C4_NeighborByNumericOrder ==
    [][LET key == TextValue(CurrentKey(designator))
           greater == {o \in ActiveObjects : o.designation > key}
           less == {o \in ActiveObjects : o.designation < key}
       IN  /\ (event' = "catalog.key_down" /\ greater /= {}) =>
                  /\ cat_object' \in greater
                  /\ \A o \in greater : cat_object'.designation <= o.designation
           /\ (event' = "catalog.key_up" /\ less /= {}) =>
                  /\ cat_object' \in less
                  /\ \A o \in less : cat_object'.designation >= o.designation
      ]_vars

C6_EnterCommitsMatch ==
    [][event' = "catalog.key_enter" =>
          IF cat_object /= None
          THEN target' = cat_object /\ switch_to' = "UILocate"
          ELSE target' = target /\ switch_to' = switch_to
      ]_vars

\* a commit has happened
C6_Witness ==
    /\ event = "catalog.key_enter"
    /\ cat_object /= None
    /\ target = cat_object
    /\ switch_to = "UILocate"

\* C7: every commit appends the committed object to the end of history.
C7_CommitAppendsToHistory ==
    [][(event' = "catalog.key_enter" /\ cat_object /= None) =>
          history_list' = Append(history_list, cat_object)
      ]_vars

\* C8: the catalog-cycle key moves to the next catalog, wrapping to the
\* first, makes the designator all placeholders in the width of the new
\* catalog (3 for Messier, 4 otherwise) and clears the tentative match.
C8_CycleResets ==
    [][event' = "catalog.key_d" =>
          /\ catalog_index' = (catalog_index + 1) % Len(catalogs)
          /\ Len(designator') = ActiveWidth(catalog_index')
          /\ \A i \in 1..Len(designator') : designator'[i] = "-"
          /\ cat_object' = None
      ]_vars

\* the cycle wrapped to the first catalog after an object was committed
C8_Witness ==
    /\ event = "catalog.key_d"
    /\ catalog_index = 0
    /\ target /= None
    /\ designator = <<"-", "-", "-", "-">>

-----------------------------------------------------------------------------
(* Properties of the Locate screen.                                        *)

\* the list that is not the active one
OtherList == IF active_list = "history_list" THEN observing_list ELSE history_list

\* C9: the list-switch key with an empty destination list leaves
\* active_list and target_index as they were and reports a message.
C9_RefusedSwitchChangesNothing ==
    [][(event' = "locate.key_b" /\ OtherList = <<>>) =>
          /\ active_list' = active_list
          /\ target_index' = target_index
          /\ message' \in {"No Obs List", "No History"}
      ]_vars

\* C10: the list-switch key with both lists non-empty makes the other list
\* the active one, with the cursor on the last entry of history or the
\* first of observing, and the target the entry at the cursor.
C10_SwitchToggles ==
    [][(event' = "locate.key_b" /\ history_list /= <<>> /\ observing_list /= <<>>) =>
          /\ active_list' /= active_list
          /\ active_list' = "history_list" => target_index' = Len(history_list) - 1
          /\ active_list' = "observing_list" => target_index' = 0
          /\ target_index' /= NoIndex
          /\ target' = ActiveList'[target_index' + 1]
      ]_vars

-----------------------------------------------------------------------------
(* Properties of the Locate screen's lists.                                *)

\* C11: a scroll with the cursor set moves it by exactly one where that
\* stays inside the active list and leaves it where it is at either end,
\* and makes the entry at the resulting cursor the target; with the cursor
\* unset it changes neither the cursor nor the target.
C11_ScrollMovesOneOrStays ==
    [][event' \in {"locate.key_up", "locate.key_down"} =>
          LET moved == target_index + (IF event' = "locate.key_up" THEN -1 ELSE 1)
          IN  IF target_index = NoIndex
              THEN target_index' = NoIndex /\ target' = target
              ELSE /\ target_index' = IF moved \in 0..(Len(ActiveList) - 1)
                                      THEN moved
                                      ELSE target_index
                   /\ target' = ActiveList[target_index' + 1]
      ]_vars

\* a scroll down has brought the cursor to the second entry of a list
C11_Witness ==
    /\ event = "locate.key_down"
    /\ target_index = 1
    /\ Len(ActiveList) = 2
    /\ target = ActiveList[2]

\* C12: on the Locate screen, over screen entry, load, save, list switch and
\* scroll, a set cursor lies inside the active list and the target is the
\* entry of the active list at the cursor.
C12_CursorPointsAtTarget ==
    target_index /= NoIndex =>
        /\ 0 <= target_index
        /\ target_index < Len(ActiveList)
        /\ target = ActiveList[target_index + 1]

\* the cursor has been scrolled to the second entry of a loaded list
C12_Witness ==
    /\ event = "locate.key_down"
    /\ message = "Loaded"
    /\ active_list = "observing_list"
    /\ target_index = 1

\* C13: entering the Locate screen puts the cursor on the first occurrence
\* of the target in the active list, or clears it when the target is none
\* or not in the list; the target and both lists stay as they are and no
\* error is raised.
C13_EntryRecomputesCursor ==
    [][event' = "locate.active" =>
          /\ target_index' = ListIndex(ActiveList, target)
          /\ UNCHANGED <<target, history_list, observing_list>>
          /\ ~raised'
      ]_vars

\* C14: a load that reads at least one record makes the observing list the
\* records read, in their order, and leaves the history list alone; if the
\* observing list was the active one, it stays the active one, with the
\* cursor at 0 and the first record as the target; the count reported is
\* the number of records loaded.
C14_LoadReplacesObserving ==
    [][\A option \in FileNames, _load_results \in ReadResults :
          (/\ UILocate_load_list(option, _load_results)
           /\ _load_results.result = "ok"
           /\ Len(_load_results.catalog) >= 1) =>
              /\ observing_list' = _load_results.catalog
              /\ history_list' = history_list
              /\ active_list = "observing_list" =>
                     /\ active_list' = "observing_list"
                     /\ target_index' = 0
                     /\ target' = _load_results.catalog[1]
              /\ message' = "Loaded"
              /\ report'[1] = Len(_load_results.catalog)
      ]_vars

\* one record out of two parsed has been loaded
C14_Witness ==
    /\ event = "locate.load_list(Observ)"
    /\ message = "Loaded"
    /\ report = <<1, 2>>
    /\ observing_list = <<Obj("M", 102)>>
    /\ active_list = "observing_list"
    /\ target_index = 0
    /\ target = Obj("M", 102)

\* C15: a load that is cancelled, that fails to read, or that reads zero
\* records leaves the history list, the observing list, the active list,
\* the cursor and the target as they were; the failed read is reported as
\* an error and the empty one as "No matches".
C15_FailedLoadChangesNothing ==
    [][\A option \in FileNames \cup {"CANCEL"}, _load_results \in ReadResults :
          (/\ UILocate_load_list(option, _load_results)
           /\ \/ option = "CANCEL"
              \/ _load_results.result = "error"
              \/ Len(_load_results.catalog) = 0) =>
              /\ UNCHANGED <<history_list, observing_list, active_list,
                             target_index, target>>
              /\ (option /= "CANCEL" /\ _load_results.result = "error") =>
                     message' = "Err!"
              /\ (option /= "CANCEL" /\ _load_results.result = "ok") =>
                     message' = "No matches"
      ]_vars

\* a read has failed with the cursor on the second entry of a list
C15_Witness ==
    /\ event = "locate.load_list(History)"
    /\ message = "Err!"
    /\ target_index = 1
    /\ target = ActiveList[2]

\* C16: a save writes only when the list its option chooses is non-empty,
\* whichever list is active; when the chosen list is empty the save is
\* refused with the empty-list message, nothing is written and the lists,
\* the cursor and the target are unchanged.
C16_SaveNeedsChosenList ==
    [][\A option \in FileNames :
          (/\ UILocate_save_list(option)
           /\ (IF option = "History" THEN history_list ELSE observing_list) = <<>>) =>
              /\ message' = "No objects"
              /\ UNCHANGED <<files, obs_list_write_index>>
              /\ UNCHANGED <<history_list, observing_list, active_list,
                             target_index, target>>
      ]_vars

\* the load of the Observ file right after a save has written it, the store
\* returning what was written
RoundTrip(_load_results) ==
    /\ event = "locate.save_list(Observ)"
    /\ message = "Saved list"
    /\ UILocate_load_list("Observ", _load_results)
    /\ _load_results.result = "ok"
    /\ _load_results.catalog = files["Observ"].list

\* C17, as stated: a save of the observing list followed by the load of the
\* file makes the observing list, and the active list, equal to the list
\* that was active at the time of the save, whichever list that was.
C17_RoundTripGivesActiveList ==
    [][\A _load_results \in ReadResults :
          RoundTrip(_load_results) =>
              /\ observing_list' = ActiveList
              /\ ActiveList' = ActiveList
      ]_vars

\* C17, amended: a save of the observing list that writes, followed by the
\* load of the file, leaves the observing list equal to the observing list
\* at the time of the save, whichever list was active; a non-empty one
\* becomes the active list with the cursor at 0 and its first entry as the
\* target, and with an empty one the active list stays as it was.
C17_RoundTripGivesObservingList ==
    [][\A _load_results \in ReadResults :
          RoundTrip(_load_results) =>
              /\ observing_list' = observing_list
              /\ IF observing_list /= <<>>
                 THEN /\ active_list' = "observing_list"
                      /\ target_index' = 0
                      /\ target' = observing_list[1]
                 ELSE /\ active_list' = active_list
                      /\ message' = "No matches"
      ]_vars

\* the observing list written has been read back, the history list being
\* another list
C17_Witness ==
    /\ event = "locate.load_list(Observ)"
    /\ message = "Loaded"
    /\ files["Observ"] = Written(observing_list)
    /\ observing_list /= history_list
    /\ history_list /= <<>>
    /\ active_list = "observing_list"
    /\ target_index = 0

-----------------------------------------------------------------------------
(* Properties of the pointing computation.                                 *)

\* the differences aim_degrees normalizes under the positioning state read
AzDifference == position.target_az - position.Az
AltDifference == position.target_alt - position.Alt

\* the degrees update has displayed are the normalized differences
DisplayedNormalized ==
    /\ pointing[2] = NormalizeSigned180(AzDifference)
    /\ pointing[3] = NormalizeSigned180(AltDifference)

\* the normalization does not tell a difference from the same difference
\* one turn further
Periodic(x) ==
    /\ NormalizeSigned180(x + FullTurn) = NormalizeSigned180(x)
    /\ NormalizeSigned180(x - FullTurn) = NormalizeSigned180(x)
    /\ x = 1 => NormalizeSigned180(x + FullTurn) = 1
    /\ x = -181 => NormalizeSigned180(x) = 179

\* C18, as stated: the normalization of every integer difference lies in
\* (-180, 180], above -180 and at most 180, and has the period 360, with
\* 361 going to 1 and -181 to 179.
C18_NormalizedAboveMinus180 ==
    (event = "locate.update" /\ pointing[1] = "degrees") =>
        /\ DisplayedNormalized
        /\ \A x \in {AzDifference, AltDifference} :
               /\ NormalizeSigned180(x) > -HalfTurn
               /\ NormalizeSigned180(x) <= HalfTurn
               /\ Periodic(x)

\* C18, amended: the normalization of every integer difference lies in
\* [-180, 180), at least -180 and below 180, and has the period 360, with
\* 361 going to 1, -181 to 179 and 180 to -180.
C18_NormalizedBelow180 ==
    (event = "locate.update" /\ pointing[1] = "degrees") =>
        /\ DisplayedNormalized
        /\ \A x \in {AzDifference, AltDifference} :
               /\ NormalizeSigned180(x) >= -HalfTurn
               /\ NormalizeSigned180(x) < HalfTurn
               /\ Periodic(x)
               /\ x = HalfTurn => NormalizeSigned180(x) = -HalfTurn

\* the target half a turn away in azimuth has been displayed as -180
C18_Witness ==
    /\ event = "locate.update"
    /\ AzDifference = HalfTurn
    /\ pointing = Aim(-HalfTurn, 5)

\* v is the difference x brought into half a turn either way
SignedRepresentative(v, x) ==
    /\ (v - x) % FullTurn = 0
    /\ v >= -HalfTurn
    /\ v <= HalfTurn

\* C19: with the location, the time and a solved position present, the
\* pointing vector is the pair of the azimuth and altitude differences
\* between the target and the observer, each congruent to the difference
\* modulo 360 and of the smallest magnitude: an observer at (359, 10) and a
\* target at (2, 15) give (3, 5), and a target at azimuth 1 gives 2.
C19_VectorIsSignedDifference ==
    (/\ event = "locate.update"
     /\ target /= None
     /\ position.location
     /\ position.dt
     /\ position.solution = "Solved") =>
        LET aim == aim_degrees(position)
        IN  /\ aim[1] = "degrees"
            /\ SignedRepresentative(aim[2], AzDifference)
            /\ SignedRepresentative(aim[3], AltDifference)
            /\ (position.Az = 359 /\ position.target_az = 2) => aim[2] = 3
            /\ (position.Az = 359 /\ position.target_az = 1) => aim[2] = 2
            /\ (position.Alt = 10 /\ position.target_alt = 15) => aim[3] = 5

\* C20: whenever the location, the time or a valid solved position is
\* missing, a solution without a usable altitude included, the pointing
\* computation yields none, and update displays the placeholder and
\* completes normally.
C20_MissingFixDisplaysPlaceholder ==
    (/\ event = "locate.update"
     /\ target /= None
     /\ \/ ~position.location
        \/ ~position.dt
        \/ position.solution /= "Solved") =>
        /\ aim_degrees(position)[1] /= "degrees"
        /\ pointing = NoFix
        /\ ~raised

-----------------------------------------------------------------------------
(* Properties of the screens under failures and under the host.            *)

\* the tentative match, if there is one, has the key as its designation
MatchAgreesWithKey ==
    cat_object /= None => DesigStr(cat_object.designation) = CurrentKey(designator)

\* C21: a digit push or an up/down scroll during which the store fails
\* does not abort the handler but counts as no match, and the tentative
\* match is never an object whose designation differs from the key.
C21_StoreFailureIsNoMatch ==
    [][event' \in {"catalog.key_number", "catalog.key_up", "catalog.key_down"} =>
          /\ ~raised'
          /\ MatchAgreesWithKey'
      ]_vars

\* C22: no key handler and no update of any screen writes the location,
\* the datetime or the solution of the shared state: they are what the
\* positioning process published last.
C22_OnlyPositioningWritesPosition ==
    [][event' /= "positioning.publish" => position' = position]_vars

\* C23: an update of the Locate screen with a target set displays the
\* placeholder only when the location, the time or the solved position is
\* missing: with all three present it displays the azimuth and altitude
\* differences in numbers, whatever they are, an azimuth difference of 0
\* included.
C23_PlaceholderOnlyWithoutFix ==
    (/\ event = "locate.update"
     /\ target /= None
     /\ position.location
     /\ position.dt
     /\ position.solution = "Solved") =>
        pointing = Aim(NormalizeSigned180(AzDifference),
                       NormalizeSigned180(AltDifference))

\* the updates the host invokes
HostUpdates == {"locate.update", "catalog.update"}

\* C24: a switch_to signal a key handler has raised is returned to the
\* host by exactly one update the host invokes: it is still pending after
\* any other key handler or screen activation that runs before that
\* update, and the update that returns it clears it.
C24_SignalReachesHost ==
    [][/\ (switch_to /= "None" /\ event' \notin HostUpdates) =>
              switch_to' /= "None"
       /\ (event' \in HostUpdates /\ ~raised') =>
              switch_to' = "None"
      ]_vars

====
